---------------------------- MODULE Spec2Model ----------------------------
(***************************************************************************)
(* A model of the cache + lookup + retry layer of the UEX Discord bot:     *)
(*   - UEXAPI.get                    (src/utils/uex_api.py)                *)
(*   - load_json_cache / save_json_cache (src/utils/cache.py)              *)
(*   - the entity resolvers and autocomplete handlers of the cogs          *)
(*     (src/cogs/category.py, price.py, general.py, ...)                   *)
(* Each component has its own specification (SpecGet, SpecCache,           *)
(* SpecCacheConc, SpecResolve); the variables of the other components are  *)
(* parked at their initial value there.                                    *)
(***************************************************************************)
EXTENDS Integers, Sequences, FiniteSets, TLC

VARIABLES
    \* ---- UEXAPI.get ----
    getPc,        \* position of the coroutine: "start", "loop", "sleep", "final", "done"
    attempt,      \* the loop variable of `for attempt in range(1, RETRIES + 1)`
    upstream,     \* what the upstream answers to the 1st, 2nd, ... request
    served,       \* number of requests issued so far
    sleeps,       \* the delays passed to asyncio.sleep, in order
    getResult     \* what get returned or raised

VARIABLES
    \* ---- the disk cache (utils/cache.py) ----
    now,          \* time.time(), in ticks
    fs,           \* the cache directory: directory entries and inodes
    lastSave,     \* per slot name: the most recent completed save_json_cache call
    lastLoad,     \* the most recent load_json_cache call: arguments, file seen, outcome
    writers,      \* processes inside save_json_cache (position, fd, offset)
    loader,       \* a process inside load_json_cache (position, fd)
    everSaved     \* the payloads handed to save_json_cache so far

VARIABLES
    \* ---- the entity resolvers and autocomplete handlers of the cogs ----
    entities,     \* the list the loader returned: records with an id and a name
    query,        \* the text the user typed
    answer        \* the operation that ran and what it returned

VARIABLES
    \* ---- one paginator view (utils/pager.py) ----
    items_all,    \* the entries handed to the view, numbered in list order
    page_size,
    offset,
    prev_disabled, next_disabled,   \* the disabled flags of the two buttons
    message,      \* the embed on the message: the page and its page number
    shown,        \* the last button press: who pressed what, and the response
    inflight      \* responses handed to Discord and not yet applied

VARIABLES
    \* ---- the list loaders of the cogs ----
    mem,          \* per handler: its (timestamp, list) memory entry
    lastCall,     \* the last constructor or loader call: what it met and did
    writable,     \* whether the cache directory takes new files
    fetches       \* per task: the loader call it is suspended in, if any

getVars == <<getPc, attempt, upstream, served, sleeps, getResult>>
cacheVars == <<now, fs, lastSave, lastLoad, writers, loader, everSaved>>
resVars == <<entities, query, answer>>
memVars == <<mem, lastCall, writable, fetches>>
pagerVars == <<items_all, page_size, offset, prev_disabled, next_disabled, message, shown,
               inflight>>

\* what the actions of one component leave alone
getOthers == <<cacheVars, resVars, pagerVars, memVars>>
cacheOthers == <<getVars, resVars, pagerVars, memVars>>
resOthers == <<getVars, cacheVars, pagerVars, memVars>>
pagerOthers == <<getVars, cacheVars, resVars, memVars>>
loaderOthers == <<getVars, resVars, pagerVars>>

vars == <<getPc, attempt, upstream, served, sleeps, getResult,
          now, fs, lastSave, lastLoad, writers, loader, everSaved,
          entities, query, answer,
          items_all, page_size, offset, prev_disabled, next_disabled, message, shown,
          inflight,
          mem, lastCall, writable, fetches>>

-----------------------------------------------------------------------------
(***************************************************************************)
(* UEXAPI.get: GET with a retry on HTTP 429.                               *)
(***************************************************************************)

\* UEXAPI.RETRIES
RETRIES == 3

\* Number of answers the upstream has prepared (one more than RETRIES, so
\* that a request after the retry loop would be answered too).
ScriptLen == 4

\* The Retry-After header of a response: absent/empty, a number of seconds,
\* or an HTTP date.
RetryAfterValues == {"", "7", "Wed"}

\* An HTTP response (kind "http") or a network/timeout failure of the
\* request itself (kind "neterr").
Responses ==
    {[kind |-> "http", status |-> 200, retry_after |-> ""],
     [kind |-> "http", status |-> 500, retry_after |-> ""],
     [kind |-> "neterr", status |-> 0, retry_after |-> ""]}
    \cup {[kind |-> "http", status |-> 429, retry_after |-> h] : h \in RetryAfterValues}

NoResult == [kind |-> "none", status |-> 0, from |-> 0]
\* `return await resp.json()` of the n-th request
Returned(n) == [kind |-> "ok", status |-> 200, from |-> n]
\* an exception raised while handling the n-th request
Raised(what, status, n) == [kind |-> what, status |-> status, from |-> n]

\* resp.raise_for_status() followed by `return await resp.json()`
RaiseForStatusOrReturn(r, n) ==
    IF r.status >= 400 THEN Raised("http_error", r.status, n) ELSE Returned(n)

\* Mutant of ShouldRetry: every error status is retried.
ShouldRetry_AnyError(r, a) == r.status >= 400 /\ a < RETRIES

\* Mutant of ShouldRetry: a 429 is retried on the last attempt too.
ShouldRetry_NoBound(r, a) == r.status = 429

\* `resp.status == 429 and attempt < self.RETRIES`
ShouldRetry(r, a) == r.status = 429 /\ a < RETRIES

\* float(retry_after): defined on numerals only
IsNumeral(h) == h \in {"0", "7"}
FloatOf(h) == IF h = "7" THEN 7 ELSE 0

\* Mutant of Delay: the Retry-After header is not looked at.
Delay_BackoffOnly(r, a) == 1 * a

\* `delay = float(retry_after) if retry_after else 1.0 * attempt`
Delay(r, a) == IF r.retry_after # "" THEN FloatOf(r.retry_after) ELSE 1 * a

GetInit ==
    /\ getPc = "start"
    /\ attempt = 0
    /\ upstream \in [1..ScriptLen -> Responses]
    /\ served = 0
    /\ sleeps = <<>>
    /\ getResult = NoResult

\* session = await self._get_session(); url = ...; enter the for loop
GetCall ==
    /\ getPc = "start"
    /\ getPc' = "loop"
    /\ attempt' = 1
    /\ UNCHANGED <<upstream, served, sleeps, getResult>>
    /\ UNCHANGED getOthers

\* `async with session.get(url, params=params) as resp:` and the body under
\* it, inside the loop (getPc = "loop") or after it (getPc = "final").
GetRequest ==
    /\ getPc \in {"loop", "final"}
    /\ served < ScriptLen
    /\ served' = served + 1
    /\ LET r == upstream[served + 1]
           n == served + 1
       IN  IF r.kind = "neterr"
           THEN /\ getResult' = Raised("neterr", 0, n)
                /\ getPc' = "done"
                /\ UNCHANGED sleeps
           ELSE IF getPc = "loop" /\ ShouldRetry(r, attempt)
           THEN IF r.retry_after # "" /\ ~IsNumeral(r.retry_after)
                THEN \* float() raises ValueError
                     /\ getResult' = Raised("value_error", r.status, n)
                     /\ getPc' = "done"
                     /\ UNCHANGED sleeps
                ELSE /\ sleeps' = Append(sleeps, Delay(r, attempt))
                     /\ getPc' = "sleep"
                     /\ UNCHANGED getResult
           ELSE /\ getResult' = RaiseForStatusOrReturn(r, n)
                /\ getPc' = "done"
                /\ UNCHANGED sleeps
    /\ UNCHANGED <<attempt, upstream>>
    /\ UNCHANGED getOthers

\* asyncio.sleep(delay) completes; `continue` takes the next value of the
\* range, or leaves the loop when the range is exhausted.
GetWake ==
    /\ getPc = "sleep"
    /\ IF attempt + 1 <= RETRIES
       THEN attempt' = attempt + 1 /\ getPc' = "loop"
       ELSE attempt' = attempt /\ getPc' = "final"
    /\ UNCHANGED <<upstream, served, sleeps, getResult>>
    /\ UNCHANGED getOthers

GetNext == GetCall \/ GetRequest \/ GetWake

StatusAt(i) == IF upstream[i].kind = "http" THEN upstream[i].status ELSE 0

\* C1 (as claimed): three consecutive 429 answers followed by a 200 give
\* exactly 2 delayed retries and then the 200 payload; a 4th consecutive 429
\* instead makes the error of that 4th request propagate.
C1_ThreeThrottlesThenOk ==
    (getPc = "done" /\ \A i \in 1..3 : StatusAt(i) = 429 /\ upstream[i].retry_after = "")
        => /\ StatusAt(4) = 200 => (getResult = Returned(4) /\ Len(sleeps) = 2)
           /\ StatusAt(4) = 429 => getResult = Raised("http_error", 429, 4)

\* C2 (as claimed): once every attempt the retry bound allows (RETRIES of
\* them) was answered 429, the request is issued once more after the loop
\* and the outcome of that request is what the caller gets.
C2_ReissueAfterLoop ==
    (getPc = "done" /\ served >= RETRIES
        /\ \A i \in 1..RETRIES : StatusAt(i) = 429 /\ upstream[i].retry_after = "")
        => /\ served = RETRIES + 1
           /\ getResult.from = RETRIES + 1

-----------------------------------------------------------------------------
(***************************************************************************)
(* Text, as sequences of characters, and the helpers of the cogs.          *)
(***************************************************************************)

\* Longest text (before padding) the user types or an entity is named
MaxStrLen == 2
\* Longest entity list
MaxEntities == 2

Digits == {"0", "1", "2", "3", "4", "5", "6", "7", "8", "9"}
DigitSeq == <<"0", "1", "2", "3", "4", "5", "6", "7", "8", "9">>

\* str.lower() and str.upper() on the letters used here
LowerChar(c) == IF c = "A" THEN "a" ELSE c
UpperChar(c) == IF c = "a" THEN "A" ELSE c
Lower(s) == [i \in 1..Len(s) |-> LowerChar(s[i])]
Upper(s) == [i \in 1..Len(s) |-> UpperChar(s[i])]

\* str.strip()
RECURSIVE Strip(_)
Strip(s) ==
    IF s = <<>> THEN s
    ELSE IF Head(s) = " " THEN Strip(Tail(s))
    ELSE IF s[Len(s)] = " " THEN Strip(SubSeq(s, 1, Len(s) - 1))
    ELSE s

\* _norm(text): (text or "").strip().lower()
Norm(text) == Lower(Strip(text))

\* s.startswith(q) and `q in s`
StartsWith(s, q) == Len(q) <= Len(s) /\ SubSeq(s, 1, Len(q)) = q
Contains(s, q) == \E i \in 0..(Len(s) - Len(q)) : SubSeq(s, i + 1, i + Len(q)) = q

\* _is_int(text): re.fullmatch(r"\d+", (text or "").strip())
IsInt(text) ==
    LET t == Strip(text) IN t # <<>> /\ \A i \in 1..Len(t) : t[i] \in Digits

\* int(query) of a text that _is_int accepts
DigitValue(c) == CHOOSE d \in 0..9 : DigitSeq[d + 1] = c
RECURSIVE IntOfDigits(_)
IntOfDigits(t) ==
    IF t = <<>> THEN 0
    ELSE 10 * IntOfDigits(SubSeq(t, 1, Len(t) - 1)) + DigitValue(t[Len(t)])
IntOf(text) == IntOfDigits(Strip(text))

\* str(n) of an id
RECURSIVE StrOfInt(_)
StrOfInt(n) ==
    IF n < 10 THEN <<DigitSeq[n + 1]>>
    ELSE StrOfInt(n \div 10) \o <<DigitSeq[(n % 10) + 1]>>

-----------------------------------------------------------------------------
(***************************************************************************)
(* The entity resolvers (_find_category, _find_commodity) and the          *)
(* autocomplete handlers.                                                  *)
(***************************************************************************)

\* `return None`
NoEntity == [id |-> 0, name |-> <<>>]

\* Mutant of FindByName: the names that start with q are looked at before
\* the names that equal it.
FindByName_PrefixFirst(cats, q) ==
    LET starts == SelectSeq(cats, LAMBDA c : StartsWith(Norm(c.name), q))
        contains == SelectSeq(cats, LAMBDA c : Contains(Norm(c.name), q))
    IN  IF starts # <<>> THEN starts[1]
        ELSE IF contains # <<>> THEN contains[1] ELSE NoEntity

\* Mutant of FindByName: no fallback to the names that contain q.
FindByName_NoSubstring(cats, q) ==
    LET exact == SelectSeq(cats, LAMBDA c : Norm(c.name) = q)
        starts == SelectSeq(cats, LAMBDA c : StartsWith(Norm(c.name), q))
    IN  IF exact # <<>> THEN exact[1]
        ELSE IF starts # <<>> THEN starts[1] ELSE NoEntity

\* The name matching shared by every resolver: exact, then startswith, then
\* contains, each the first in list order.
FindByName(cats, q) ==
    LET exact == SelectSeq(cats, LAMBDA c : Norm(c.name) = q)
        starts == SelectSeq(cats, LAMBDA c : StartsWith(Norm(c.name), q))
        contains == SelectSeq(cats, LAMBDA c : Contains(Norm(c.name), q))
    IN  IF exact # <<>> THEN exact[1]
        ELSE IF starts # <<>> THEN starts[1]
        ELSE IF contains # <<>> THEN contains[1] ELSE NoEntity

\* Category._find_category, ItemsByCategory._find_category, General._find_category
FindCategory(cats, text) ==
    IF cats = <<>> THEN NoEntity
    ELSE IF IsInt(text)
         THEN LET byId == SelectSeq(cats, LAMBDA c : c.id = IntOf(text))
              IN  IF byId # <<>> THEN byId[1] ELSE NoEntity
    ELSE FindByName(cats, Norm(text))

\* Price._find_commodity, Route._find_commodity, Trade._find_commodity,
\* PriceHistory._find_commodity
FindCommodity(commodities, text) ==
    IF commodities = <<>> THEN NoEntity
    ELSE LET q == Norm(text)
             byId == SelectSeq(commodities, LAMBDA c : StrOfInt(c.id) = q)
         IN  IF byId # <<>> THEN byId[1] ELSE FindByName(commodities, q)

\* `[:20]` of the autocomplete handlers
SuggestCap == 20
Take(xs, n) == SubSeq(xs, 1, IF Len(xs) < n THEN Len(xs) ELSE n)

\* The subset of Category.category_autocomplete (and of the handlers of the
\* price, route, trade, price_history, alerts and items_by_category cogs)
Autocomplete(cats, current) ==
    LET cur == Norm(current)
    IN  IF cur = <<>> THEN Take(cats, SuggestCap)
        ELSE Take(SelectSeq(cats, LAMBDA c : StartsWith(Norm(c.name), cur))
                  \o SelectSeq(cats, LAMBDA c : Contains(Norm(c.name), cur)),
                  SuggestCap)

\* The subset of General.category_autocomplete
IsIn(c, xs) == \E i \in 1..Len(xs) : xs[i] = c
AutocompleteGeneral(cats, current) ==
    LET cur == Norm(current)
        starts == SelectSeq(cats, LAMBDA c : StartsWith(Norm(c.name), cur))
        contains == SelectSeq(cats, LAMBDA c : Contains(Norm(c.name), cur) /\ ~IsIn(c, starts))
    IN  IF cur = <<>> THEN Take(cats, SuggestCap)
        ELSE Take(starts \o contains, SuggestCap)

\* The texts: every text of at most MaxStrLen characters over a letter and a
\* digit. Entities are named in capitals; the user types the text as it is,
\* or in capitals with a blank on either side.
BaseChars == {"a", "2"}
BaseTexts == UNION {[1..n -> BaseChars] : n \in 0..MaxStrLen}
NameTexts == {Upper(s) : s \in BaseTexts}
QueryTexts == BaseTexts \cup {<<" ">> \o Upper(s) \o <<" ">> : s \in BaseTexts}

\* The ids of a list of n entities: 1..n in list order, or n+1 down to 2.
IdSchemes == {"up", "down"}
IdAt(scheme, n, k) == IF scheme = "up" THEN k ELSE n + 2 - k

EntityLists ==
    UNION {{[k \in 1..n |-> [id |-> IdAt(sch, n, k), name |-> names[k]]] :
                names \in [1..n -> NameTexts], sch \in IdSchemes} : n \in 0..MaxEntities}

NoAnswer == [op |-> "none", entity |-> NoEntity, list |-> <<>>]

ResolveParked ==
    /\ entities = <<>>
    /\ query = <<>>
    /\ answer = NoAnswer

ResolveInit ==
    /\ entities \in EntityLists
    /\ query \in QueryTexts
    /\ answer = NoAnswer

\* /category, /items_by_category: cat = await self._find_category(category)
DoFindCategory ==
    /\ answer.op = "none"
    /\ answer' = [op |-> "find_category", entity |-> FindCategory(entities, query), list |-> <<>>]
    /\ UNCHANGED <<entities, query>>
    /\ UNCHANGED resOthers

\* /price, /route, /trade, /price_history: comm = await self._find_commodity(commodity)
DoFindCommodity ==
    /\ answer.op = "none"
    /\ answer' = [op |-> "find_commodity", entity |-> FindCommodity(entities, query), list |-> <<>>]
    /\ UNCHANGED <<entities, query>>
    /\ UNCHANGED resOthers

\* Category.category_autocomplete and the handlers written like it
DoAutocomplete ==
    /\ answer.op = "none"
    /\ answer' = [op |-> "autocomplete", entity |-> NoEntity, list |-> Autocomplete(entities, query)]
    /\ UNCHANGED <<entities, query>>
    /\ UNCHANGED resOthers

\* General.category_autocomplete
DoAutocompleteGeneral ==
    /\ answer.op = "none"
    /\ answer' = [op |-> "autocomplete_general", entity |-> NoEntity,
                  list |-> AutocompleteGeneral(entities, query)]
    /\ UNCHANGED <<entities, query>>
    /\ UNCHANGED resOthers

ResolveNext == DoFindCategory \/ DoFindCommodity \/ DoAutocomplete \/ DoAutocompleteGeneral

-----------------------------------------------------------------------------
(***************************************************************************)
(* The paginator view (BasePaginatorView of utils/pager.py and its copy    *)
(* ItemsPaginatorView of cogs/items_by_category.py).                       *)
(***************************************************************************)

\* Longest list handed to a view
MaxTotal == 30
\* Largest page size tried besides the default one
MaxPageSize == 3

\* `page_size: int = 25`
DefaultPageSize == 25

\* self.user_id, the user the view was made for. interaction.user is drawn
\* from 0..2: absent (0), that user, or another one.
UserId == 1

\* self.total = len(items)
Total == Len(items_all)

\* Mutant of PageSlice: the slice stops one entry early.
PageSlice_Short(items, off, size) ==
    LET len == Len(items)
        Idx(i) == IF i < 0 THEN (IF len + i < 0 THEN 0 ELSE len + i)
                  ELSE IF i > len THEN len ELSE i
    IN  IF Idx(off) >= Idx(off + size) - 1 THEN <<>>
        ELSE SubSeq(items, Idx(off) + 1, Idx(off + size) - 1)

\* _page_slice: items_all[offset : offset + page_size], a Python slice (a
\* negative bound counts from the end, a bound past the end is the end).
PageSlice(items, off, size) ==
    LET len == Len(items)
        Idx(i) == IF i < 0 THEN (IF len + i < 0 THEN 0 ELSE len + i)
                  ELSE IF i > len THEN len ELSE i
    IN  IF Idx(off) >= Idx(off + size) THEN <<>>
        ELSE SubSeq(items, Idx(off) + 1, Idx(off + size))

\* _update_buttons
UpdateButtons(off, size, total) ==
    [prev |-> off <= 0, next |-> off + size >= total]

\* Mutant of Embed: the embed is always rendered from the first page.
Embed_FirstPage(items, off, size) ==
    [page |-> PageSlice(items, 0, size), page_num |-> (off \div size) + 1]

\* _embed: the page and the page number of the footer
Embed(items, off, size) ==
    [page |-> PageSlice(items, off, size), page_num |-> (off \div size) + 1]

\* Mutant of Guard: every user who is present may navigate.
Guard_AnyUser(user, user_id) == user # 0

\* _guard: interaction.user and interaction.user.id == self.user_id
Guard(user, user_id) == user # 0 /\ user = user_id

\* Mutant of PrevOffset: the offset is not clamped at 0.
PrevOffset_Unclamped(off, size) == off - size

\* Mutant of PrevOffset: previous goes back to the first page.
PrevOffset_ToStart(off, size) == 0

\* on_prev: max(0, self.offset - self.page_size)
PrevOffset(off, size) == IF off - size > 0 THEN off - size ELSE 0

\* Mutant of NextOffset: the offset is not clamped at the last start.
NextOffset_Unclamped(off, size, total) == off + size

\* on_next: min(self.offset + self.page_size, max(0, self.total - self.page_size))
NextOffset(off, size, total) ==
    LET last_start == IF total - size > 0 THEN total - size ELSE 0
    IN  IF off + size < last_start THEN off + size ELSE last_start

PagerParked ==
    /\ items_all = <<>>
    /\ page_size = DefaultPageSize
    /\ offset = 0
    /\ prev_disabled = TRUE
    /\ next_disabled = TRUE
    /\ message = Embed(<<>>, 0, DefaultPageSize)
    /\ shown = [op |-> "none", by |-> 0, kind |-> "none", before |-> 0]
    /\ inflight = <<>>

\* The body shared by on_prev and on_next, pressed by `user`: the guard, then
\* the new offset, the buttons and the edited message.
Press(op, user, new_offset) ==
    IF Guard(user, UserId)
    THEN /\ offset' = new_offset
         /\ prev_disabled' = UpdateButtons(new_offset, page_size, Total).prev
         /\ next_disabled' = UpdateButtons(new_offset, page_size, Total).next
         /\ message' = Embed(items_all, new_offset, page_size)
         /\ shown' = [op |-> op, by |-> user, kind |-> "edit_message", before |-> offset]
    ELSE /\ shown' = [op |-> op, by |-> user, kind |-> "ephemeral_notice", before |-> offset]
         /\ UNCHANGED <<offset, prev_disabled, next_disabled, message>>

OnPrev ==
    /\ \E user \in 0..2 : Press("prev", user, PrevOffset(offset, page_size))
    /\ UNCHANGED <<items_all, page_size, inflight>>
    /\ UNCHANGED pagerOthers

OnNext ==
    /\ \E user \in 0..2 : Press("next", user, NextOffset(offset, page_size, Total))
    /\ UNCHANGED <<items_all, page_size, inflight>>
    /\ UNCHANGED pagerOthers

PagerNext == OnPrev \/ OnNext

-----------------------------------------------------------------------------
(***************************************************************************)
(* Python values and their JSON text (json.dump / json.load).              *)
(***************************************************************************)

\* Python values: None, a list of entity records, a one-key dict.
PyNone == [t |-> "none"]
PyList(s) == [t |-> "list", items |-> s]
PyDict(k, v) == [t |-> "dict", key |-> k, val |-> v]

\* The entity records a list may hold and the keys a dict may have.
Records == {"r1", "r2"}
Keys == {"data", "x"}

\* Longest list of a payload
MaxListLen == 2

ListBodies == UNION {[1..n -> Records] : n \in 0..MaxListLen}

\* Values without a dict, with one level of dict, with two.
PyLeaves == {PyNone} \cup {PyList(s) : s \in ListBodies}
PyLevel1 == PyLeaves \cup {PyDict(k, v) : k \in Keys, v \in PyLeaves}
PyLevel2 == PyLevel1 \cup {PyDict(k, v) : k \in Keys, v \in PyLevel1}

\* json.dump(obj, f): the text, as a sequence of tokens.
RECURSIVE JsonDumps(_)
JsonDumps(v) ==
    IF v.t = "none" THEN <<"null">>
    ELSE IF v.t = "list" THEN <<"[">> \o v.items \o <<"]">>
    ELSE <<"{", v.key>> \o JsonDumps(v.val) \o <<"}">>

\* json.load(f): the value whose text this is; JSONDecodeError for a text
\* that is no JSON document.
JsonDecodeError == [t |-> "JSONDecodeError"]
JsonDocs == {[text |-> JsonDumps(v), val |-> v] : v \in PyLevel2}
JsonLoads(text) ==
    IF \E d \in JsonDocs : d.text = text
    THEN (CHOOSE d \in JsonDocs : d.text = text).val
    ELSE JsonDecodeError

-----------------------------------------------------------------------------
(***************************************************************************)
(* The cache directory: directory entries (path -> inode) and inodes.      *)
(***************************************************************************)

\* The slot names the cogs use (two of them).
NameSeq == <<"commodities", "categories">>
Names == {NameSeq[k] : k \in 1..Len(NameSeq)}

\* _path(name): <cache dir>/{name}.json
Path(name) == [name |-> name, ext |-> ".json"]
\* tmp = p + ".tmp"
TmpOf(p) == [p EXCEPT !.ext = ".json.tmp"]

\* The files of the cache directory, in a fixed order.
PathSeq == [k \in 1..(2 * Len(NameSeq)) |->
               IF k <= Len(NameSeq) THEN Path(NameSeq[k])
               ELSE TmpOf(Path(NameSeq[k - Len(NameSeq)]))]
Paths == {PathSeq[k] : k \in 1..Len(PathSeq)}
PathIndex(p) == CHOOSE k \in 1..Len(PathSeq) : PathSeq[k] = p

\* Processes that can hold a file descriptor.
Writers == {"w1", "w2"}
Procs == Writers \cup {"reader"}

InoIds == 1..(Cardinality(Paths) + Cardinality(Procs))
NoIno == 0

BlankInode == [content |-> <<>>, mtime |-> 0, readable |-> TRUE]

EmptyFs == [dir |-> [p \in Paths |-> NoIno], ino |-> [i \in InoIds |-> BlankInode]]

\* os.path.exists(p)
Exists(f, p) == f.dir[p] # NoIno

\* Inodes no directory entry and no open descriptor refers to are gone.
\* Inode numbers mean nothing to the program: while no descriptor is open,
\* the file at the k-th path is given inode k.
Collect(f, held) ==
    IF held = {}
    THEN [dir |-> [p \in Paths |-> IF f.dir[p] = NoIno THEN NoIno ELSE PathIndex(p)],
          ino |-> [i \in InoIds |->
                     IF i <= Len(PathSeq) /\ f.dir[PathSeq[i]] # NoIno
                     THEN f.ino[f.dir[PathSeq[i]]] ELSE BlankInode]]
    ELSE [f EXCEPT !.ino = [i \in InoIds |->
             IF i \in held \/ \E p \in Paths : f.dir[p] = i THEN f.ino[i] ELSE BlankInode]]

FreeIno(f, held) ==
    CHOOSE i \in InoIds :
        /\ i \notin held /\ \A p \in Paths : f.dir[p] # i
        /\ \A j \in InoIds : (j \notin held /\ \A p \in Paths : f.dir[p] # j) => i <= j

\* open(path, "w"): O_CREAT | O_TRUNC. The file is created when the path does
\* not exist and truncated when it does; the descriptor starts at offset 0.
OpenWrite(f, path, held, t) ==
    IF Exists(f, path)
    THEN [f EXCEPT !.ino[f.dir[path]].content = <<>>, !.ino[f.dir[path]].mtime = t]
    ELSE LET i == FreeIno(f, held)
         IN  [f EXCEPT !.dir[path] = i, !.ino[i] = [BlankInode EXCEPT !.mtime = t]]

\* write(fd, text) at offset off (0-based): overwrites in place and extends
\* the file; the bytes past the written range stay as they are.
Overlay(old, off, text) ==
    LET n == IF Len(old) > off + Len(text) THEN Len(old) ELSE off + Len(text)
    IN  [i \in 1..n |->
            IF i > off /\ i <= off + Len(text) THEN text[i - off]
            ELSE IF i <= Len(old) THEN old[i] ELSE "NUL"]

WriteAt(f, i, off, text, t) ==
    [f EXCEPT !.ino[i].content = Overlay(@, off, text), !.ino[i].mtime = t]

\* os.replace(src, dst): atomic rename over dst. FileNotFoundError when src
\* does not exist (the caller checks Exists first).
OsReplace(f, src, dst) ==
    [f EXCEPT !.dir[dst] = f.dir[src], !.dir[src] = NoIno]

-----------------------------------------------------------------------------
(***************************************************************************)
(* utils/cache.py                                                          *)
(***************************************************************************)

\* Mutant of Envelope: the payload is written bare.
Envelope_Bare(data) == data

\* json.dump({"data": data}, f, ...)
Envelope(data) == PyDict("data", data)

\* save_json_cache(name, data), run without interruption.
SaveJsonCache(f, name, data, t) ==
    LET p == Path(name)
        tmp == TmpOf(p)
        f1 == OpenWrite(f, tmp, {}, t)
        f2 == WriteAt(f1, f1.dir[tmp], 0, JsonDumps(Envelope(data)), t)
    IN  Collect(OsReplace(f2, tmp, p), {})

\* Outcomes of a call
Return(v) == [kind |-> "return", val |-> v]
Raise(e) == [kind |-> "raise", val |-> [t |-> e]]

\* Mutant of IsStale: a file exactly max_age_sec old counts as stale.
IsStale_AtBoundary(t, mtime, max_age_sec) == t - mtime >= max_age_sec

\* `time.time() - stat.st_mtime > max_age_sec`
IsStale(t, mtime, max_age_sec) == t - mtime > max_age_sec

\* `payload.get("data", payload)`: AttributeError on a value that is no dict
GetData(payload) ==
    IF payload.t # "dict" THEN Raise("AttributeError")
    ELSE IF payload.key = "data" THEN Return(payload.val)
    ELSE Return(payload)

\* `with open(p, "r") as f: payload = json.load(f)` and the return under it,
\* given the inode the open reached.
ReadAndUnwrap(inode) ==
    IF ~inode.readable THEN Raise("PermissionError")
    ELSE LET payload == JsonLoads(inode.content)
         IN  IF payload = JsonDecodeError THEN Raise("JSONDecodeError")
             ELSE GetData(payload)

\* Mutant of CatchException: the exception leaves the function.
CatchException_Propagate(outcome) == outcome

\* `except Exception: return None`
CatchException(outcome) ==
    IF outcome.kind = "raise" THEN Return(PyNone) ELSE outcome

\* load_json_cache(name, max_age_sec), run without interruption.
LoadJsonCache(f, name, max_age_sec, t) ==
    LET p == Path(name)
    IN  IF ~Exists(f, p) THEN Return(PyNone)
        ELSE CatchException(
                 IF IsStale(t, f.ino[f.dir[p]].mtime, max_age_sec)
                 THEN Return(PyNone)
                 ELSE ReadAndUnwrap(f.ino[f.dir[p]]))

-----------------------------------------------------------------------------
(***************************************************************************)
(* One process using the cache: every call runs to completion (neither     *)
(* function awaits), time passes between calls.                            *)
(***************************************************************************)

\* Last tick of the clock
MaxTime == 3
\* Largest max_age_sec passed to load_json_cache
MaxAge == 2
MaxAges == (0 - 1)..MaxAge

\* The payloads handed to save_json_cache: null, an empty list, a list of
\* records, a mapping with a "data" key of its own, another mapping.
Payloads ==
    {PyNone, PyList(<<>>), PyList(<<"r1">>), PyList(<<"r1", "r2">>),
     PyDict("data", PyList(<<"r1">>)), PyDict("x", PyNone)}

NoSave == [saved |-> FALSE, payload |-> PyNone, at |-> 0]
NoFile == [exists |-> FALSE, content |-> <<>>, mtime |-> 0, readable |-> TRUE]
NoLoad == [called |-> FALSE, name |-> "", max_age |-> 0, at |-> 0,
           save |-> NoSave, seen |-> NoFile, outcome |-> Return(PyNone)]

\* What is at path p: the file load_json_cache is about to meet.
FileAt(f, p) ==
    IF Exists(f, p)
    THEN [exists |-> TRUE, content |-> f.ino[f.dir[p]].content,
          mtime |-> f.ino[f.dir[p]].mtime, readable |-> f.ino[f.dir[p]].readable]
    ELSE NoFile

IdleWriter == [pc |-> "idle", name |-> "", text |-> <<>>, fd |-> NoIno, off |-> 0]
IdleLoader == [pc |-> "idle", name |-> "", max_age |-> 0, fd |-> NoIno]

CacheInit ==
    /\ now = 0
    /\ fs = EmptyFs
    /\ lastSave = [n \in Names |-> NoSave]
    /\ lastLoad = NoLoad
    /\ writers = [w \in Writers |-> IdleWriter]
    /\ loader = IdleLoader
    /\ everSaved = {}

\* time passes (the result of the last call has been consumed)
Tick ==
    /\ now < MaxTime
    /\ now' = now + 1
    /\ lastLoad' = NoLoad
    /\ UNCHANGED <<fs, lastSave, writers, loader, everSaved>>
    /\ UNCHANGED cacheOthers

\* save_json_cache(name, data)
Save ==
    \E name \in Names, data \in Payloads :
        /\ fs' = SaveJsonCache(fs, name, data, now)
        /\ lastSave' = [lastSave EXCEPT ![name] = [saved |-> TRUE, payload |-> data, at |-> now]]
        /\ lastLoad' = NoLoad
        /\ UNCHANGED <<now, writers, loader, everSaved>>
        /\ UNCHANGED cacheOthers

\* load_json_cache(name, max_age_sec)
Load ==
    \E name \in Names, max_age_sec \in MaxAges :
        /\ lastLoad' = [called |-> TRUE, name |-> name, max_age |-> max_age_sec, at |-> now,
                        save |-> lastSave[name], seen |-> FileAt(fs, Path(name)),
                        outcome |-> LoadJsonCache(fs, name, max_age_sec, now)]
        /\ UNCHANGED <<now, fs, lastSave, writers, loader, everSaved>>
        /\ UNCHANGED cacheOthers

CacheNext == Tick \/ Save \/ Load

\* The cogs that keep a list in memory: Price and Trade share the slot
\* "commodities"; Category keeps its list in memory only.
Handlers == {"Price", "Trade", "Category"}
\* A handler before its constructor ran, and no loader call yet. `obtained`
\* is no field of the code: it records when the upstream gave the list held.
NotBuilt == [built |-> FALSE, ts |-> 0, cached |-> PyList(<<>>), from |-> "none",
             obtained |-> 0]
\* The tasks of the event loop that can be inside a list loader at once, and
\* a task that is in none.
Tasks == {"t1", "t2"}
IdleFetch == [pc |-> "idle", h |-> "", started |-> 0, reply |-> [t |-> "none"],
              taken |-> 0, overlapped |-> FALSE]
NoCall == [op |-> "none", h |-> "", at |-> 0, before |-> NotBuilt, disk |-> PyNone,
           network |-> FALSE, outcome |-> Return(PyNone),
           autocomplete |-> Return(PyNone)]
LoaderParked ==
    /\ mem = [h \in Handlers |-> NotBuilt]
    /\ lastCall = NoCall
    /\ writable = TRUE
    /\ fetches = [t \in Tasks |-> IdleFetch]

GetParked ==
    /\ getPc = "start" /\ attempt = 0 /\ upstream = <<>> /\ served = 0
    /\ sleeps = <<>> /\ getResult = NoResult

InitCache == CacheInit /\ GetParked /\ ResolveParked /\ PagerParked /\ LoaderParked

SpecCache == InitCache /\ [][CacheNext]_vars

\* UEXAPI.get on its own
InitGet == GetInit /\ CacheInit /\ ResolveParked /\ PagerParked /\ LoaderParked

SpecGet == InitGet /\ [][GetNext]_vars

\* UEXAPI.get under a fair event loop: a coroutine that can take its next
\* step (the response arrives, the sleep ends) does take it.
SpecGetFair == SpecGet /\ WF_vars(GetNext)

\* C22: each sleep follows a 429 answer to an attempt before the last one;
\* it lasts the Retry-After value when the answer has one and 1.0 * attempt
\* otherwise; the next request is not issued while the sleep is running.
C22_RetryDelay ==
    /\ \A i \in 1..Len(sleeps) :
          /\ upstream[i].kind = "http" /\ upstream[i].status = 429
          /\ i < RETRIES
          /\ sleeps[i] = (IF upstream[i].retry_after # ""
                          THEN FloatOf(upstream[i].retry_after) ELSE i)
    /\ served <= Len(sleeps) + 1
    /\ getPc = "sleep" => served = Len(sleeps)

\* C22 witness: a sleep of the Retry-After value, then one of 2 s before the
\* third attempt.
C22_Witness ==
    /\ getPc = "done" /\ served = 3
    /\ upstream[1].retry_after = "7" /\ upstream[2].retry_after = ""
    /\ sleeps = <<7, 2>>

C3_LoadIffFresh ==
    lastLoad.called =>
        IF lastLoad.save.saved /\ lastLoad.at - lastLoad.save.at <= lastLoad.max_age
        THEN lastLoad.outcome = Return(lastLoad.save.payload)
        ELSE lastLoad.outcome = Return(PyNone)

\* C3 witness: a load at the very boundary e = t > 0 returned the payload,
C3_Witness ==
    /\ lastLoad.called /\ lastLoad.save.saved
    /\ lastLoad.max_age > 0
    /\ lastLoad.at - lastLoad.save.at = lastLoad.max_age
    /\ lastLoad.outcome = Return(PyList(<<"r1", "r2">>))

\* A save followed immediately by a load of the same slot with t >= 0.
LoadRightAfterSave ==
    /\ lastLoad.called /\ lastLoad.save.saved
    /\ lastLoad.at = lastLoad.save.at
    /\ lastLoad.max_age >= 0

\* C4 (as claimed): the round trip gives back a value equal to X that can be
\* told from a miss, for every payload X, null included.
C4_RoundTripDistinguishable ==
    LoadRightAfterSave =>
        /\ lastLoad.outcome = Return(lastLoad.save.payload)
        /\ lastLoad.outcome # Return(PyNone)

\* C4 (amended): the round trip gives back a value equal to X; it can be told
\* from a miss exactly when X is not null.
C4_RoundTrip ==
    LoadRightAfterSave =>
        /\ lastLoad.outcome = Return(lastLoad.save.payload)
        /\ (lastLoad.outcome # Return(PyNone)) <=> (lastLoad.save.payload # PyNone)

\* C4 witness: a mapping that has a "data" key of its own came back whole
\* from a load with t = 0.
C4_Witness ==
    /\ LoadRightAfterSave
    /\ lastLoad.max_age = 0
    /\ lastLoad.save.payload = PyDict("data", PyList(<<"r1">>))
    /\ lastLoad.outcome = Return(PyDict("data", PyList(<<"r1">>)))


-----------------------------------------------------------------------------
(***************************************************************************)
(* The same process, with the slot files also changed from outside the     *)
(* program (a cleanup, an editor, another tool, a chmod).                  *)
(***************************************************************************)

\* What a foreign hand can leave in a slot file, and whether it is readable:
\* a truncated document, text that is no JSON, a top-level list, a top-level
\* null, an object without a "data" key, and an envelope nobody may read.
ForeignFiles ==
    {[content |-> <<"{", "data", "[">>, readable |-> TRUE],
     [content |-> <<"junk">>, readable |-> TRUE],
     [content |-> JsonDumps(PyList(<<"r1">>)), readable |-> TRUE],
     [content |-> JsonDumps(PyNone), readable |-> TRUE],
     [content |-> JsonDumps(PyDict("x", PyList(<<>>))), readable |-> TRUE],
     [content |-> JsonDumps(Envelope(PyList(<<"r1">>))), readable |-> FALSE]}

\* the slot file of a name is removed
Remove ==
    \E name \in Names :
        /\ Exists(fs, Path(name))
        /\ fs' = Collect([fs EXCEPT !.dir[Path(name)] = NoIno], {})
        /\ lastSave' = [lastSave EXCEPT ![name] = NoSave]
        /\ lastLoad' = NoLoad
        /\ UNCHANGED <<now, writers, loader, everSaved>>
        /\ UNCHANGED cacheOthers

\* the slot file of a name is written from outside
Tamper ==
    \E name \in Names, file \in ForeignFiles :
        /\ LET f1 == OpenWrite(fs, Path(name), {}, now)
               i == f1.dir[Path(name)]
           IN  fs' = Collect([f1 EXCEPT !.ino[i].content = file.content,
                                        !.ino[i].readable = file.readable], {})
        /\ lastSave' = [lastSave EXCEPT ![name] = NoSave]
        /\ lastLoad' = NoLoad
        /\ UNCHANGED <<now, writers, loader, everSaved>>
        /\ UNCHANGED cacheOthers

CacheEnvNext == Tick \/ Save \/ Load \/ Remove \/ Tamper

SpecCacheEnv == InitCache /\ [][CacheEnvNext]_vars

\* The file a load met cannot give a payload: it does not exist, cannot be
\* read, is no JSON document, is a document whose top level is no object, or
\* is older than max_age.
Unusable(l) ==
    \/ ~l.seen.exists
    \/ ~l.seen.readable
    \/ JsonLoads(l.seen.content) = JsonDecodeError
    \/ JsonLoads(l.seen.content).t # "dict"
    \/ l.at - l.seen.mtime > l.max_age

\* C6: load_json_cache never raises; on a slot that does not exist, cannot
\* be read or parsed (a top level that is no object included) or is older
\* than max_age, it returns None.
C6_LoadNeverRaises ==
    lastLoad.called =>
        /\ lastLoad.outcome.kind = "return"
        /\ Unusable(lastLoad) => lastLoad.outcome = Return(PyNone)

\* C6 witness: a fresh, readable slot whose document is a top-level list was
\* loaded, and the load returned None.
C6_Witness ==
    /\ lastLoad.called
    /\ lastLoad.seen.exists /\ lastLoad.seen.readable
    /\ lastLoad.at - lastLoad.seen.mtime <= lastLoad.max_age
    /\ JsonLoads(lastLoad.seen.content) = PyList(<<"r1">>)
    /\ lastLoad.outcome = Return(PyNone)

-----------------------------------------------------------------------------
(***************************************************************************)
(* Several processes on one slot: two inside save_json_cache and one       *)
(* inside load_json_cache, interleaved at their system calls.              *)
(***************************************************************************)

\* Tokens one write() of the buffered file carries
BufLen == 2

\* The slot all of them use, and the lists saved into it.
ConcName == "commodities"
ConcPayloads == {PyList(<<"r1", "r1">>), PyList(<<"r2", "r2">>)}
\* A max_age_sec no file meets and one every file meets.
ConcAges == {0 - 1, MaxAge}

\* The inodes some process has open.
Held(ws, l) ==
    {ws[w].fd : w \in {x \in Writers : ws[x].pc = "writing"}}
        \cup (IF l.pc = "read" THEN {l.fd} ELSE {})

SubText(text, off, n) ==
    [i \in 1..(IF Len(text) - off < n THEN Len(text) - off ELSE n) |-> text[off + i]]

\* `with open(tmp, "w", encoding="utf-8") as f:`
WOpen(w) ==
    /\ writers[w].pc = "idle"
    /\ \E data \in ConcPayloads :
        LET tmp == TmpOf(Path(ConcName))
            f1 == OpenWrite(fs, tmp, Held(writers, loader), now)
        IN  /\ fs' = f1
            /\ writers' = [writers EXCEPT ![w] =
                   [pc |-> "writing", name |-> ConcName,
                    text |-> JsonDumps(Envelope(data)), fd |-> f1.dir[tmp], off |-> 0]]
            /\ everSaved' = everSaved \cup {data}
    /\ UNCHANGED <<now, lastSave, lastLoad, loader>>
    /\ UNCHANGED cacheOthers

\* json.dump(...): the buffered file hands the text to the descriptor one
\* buffer at a time, at the descriptor's own offset.
WWrite(w) ==
    /\ writers[w].pc = "writing"
    /\ writers[w].off < Len(writers[w].text)
    /\ LET chunk == SubText(writers[w].text, writers[w].off, BufLen)
       IN  /\ fs' = WriteAt(fs, writers[w].fd, writers[w].off, chunk, now)
           /\ writers' = [writers EXCEPT ![w].off = @ + Len(chunk)]
    /\ UNCHANGED <<now, lastSave, lastLoad, loader, everSaved>>
    /\ UNCHANGED cacheOthers

\* the file is closed and `os.replace(tmp, p)` runs; FileNotFoundError when
\* another save has already moved the temporary file away.
WReplace(w) ==
    /\ writers[w].pc = "writing"
    /\ writers[w].off = Len(writers[w].text)
    /\ writers' = [writers EXCEPT ![w] = IdleWriter]
    /\ LET p == Path(writers[w].name)
           tmp == TmpOf(p)
       IN  fs' = Collect(IF Exists(fs, tmp) THEN OsReplace(fs, tmp, p) ELSE fs,
                         Held(writers', loader))
    /\ UNCHANGED <<now, lastSave, lastLoad, loader, everSaved>>
    /\ UNCHANGED cacheOthers

\* load_json_cache is entered: `if not os.path.exists(p): return None`
LExists ==
    /\ loader.pc = "idle"
    /\ \E max_age_sec \in ConcAges :
        IF Exists(fs, Path(ConcName))
        THEN /\ loader' = [pc |-> "stat", name |-> ConcName, max_age |-> max_age_sec, fd |-> NoIno]
             /\ lastLoad' = NoLoad
        ELSE /\ loader' = IdleLoader
             /\ lastLoad' = [NoLoad EXCEPT !.called = TRUE, !.name = ConcName,
                                           !.max_age = max_age_sec, !.at = now]
    /\ UNCHANGED <<now, fs, lastSave, writers, everSaved>>
    /\ UNCHANGED cacheOthers

\* `stat = os.stat(p)` and the age test; then `open(p, "r")`
LStatOpen ==
    /\ loader.pc = "stat"
    /\ LET p == Path(loader.name)
       IN  IF IsStale(now, fs.ino[fs.dir[p]].mtime, loader.max_age)
           THEN /\ loader' = IdleLoader
                /\ lastLoad' = [NoLoad EXCEPT !.called = TRUE, !.name = loader.name,
                                              !.max_age = loader.max_age, !.at = now]
           ELSE /\ loader' = [loader EXCEPT !.pc = "read", !.fd = fs.dir[p]]
                /\ UNCHANGED lastLoad
    /\ UNCHANGED <<now, fs, lastSave, writers, everSaved>>
    /\ UNCHANGED cacheOthers

\* `payload = json.load(f)`, the return under it and the except clause
LRead ==
    /\ loader.pc = "read"
    /\ loader' = IdleLoader
    /\ lastLoad' = [NoLoad EXCEPT !.called = TRUE, !.name = loader.name,
                                  !.max_age = loader.max_age, !.at = now,
                                  !.outcome = CatchException(ReadAndUnwrap(fs.ino[loader.fd]))]
    /\ fs' = Collect(fs, Held(writers, loader'))
    /\ UNCHANGED <<now, lastSave, writers, everSaved>>
    /\ UNCHANGED cacheOthers

CacheConcNext ==
    \/ \E w \in Writers : WOpen(w)
    \/ \E w \in Writers : WWrite(w)
    \/ \E w \in Writers : WReplace(w)
    \/ LExists
    \/ LStatOpen
    \/ LRead

SpecCacheConc == InitCache /\ [][CacheConcNext]_vars

\* C5 (as claimed): whatever the interleaving of saves and loads of a slot,
\* a load returns a miss or a payload that was passed whole to some save.
C5_NoTornRead ==
    lastLoad.called =>
        \/ lastLoad.outcome = Return(PyNone)
        \/ lastLoad.outcome.kind = "return" /\ lastLoad.outcome.val \in everSaved

-----------------------------------------------------------------------------
(***************************************************************************)
(* The list loaders of the cogs (_load_commodities, _load_categories, ...): *)
(* a (timestamp, list) entry in memory in front of the upstream fetch,     *)
(* seeded from and mirrored into the disk cache.                           *)
(***************************************************************************)

\* The slot, the TTL of the memory entry (86400 s for commodities, 60 s for
\* categories, in ticks), and whether the cog seeds from and mirrors to disk.
\* The seeding max-age, 24 * 3600 s, is as long as the TTL of commodities.
LoaderOf(h) ==
    IF h = "Category"
    THEN [slot |-> "categories", ttl |-> 1, seeded |-> FALSE, mirrored |-> FALSE]
    ELSE [slot |-> "commodities", ttl |-> MaxAge, seeded |-> TRUE, mirrored |-> TRUE]

\* Python truth of a cached value: None and the empty list are false
Truthy(v) == v # PyNone /\ v # PyList(<<>>)

\* Mutant of Seed: the constructor does not take the list of the disk slot.
Seed_Ignored(outcome) == PyList(<<>>)

\* `load_json_cache(name, 24 * 3600) or []`
Seed(outcome) == IF Truthy(outcome.val) THEN outcome.val ELSE PyList(<<>>)

\* What the upstream answers, and `data.get("data", []) or []`
UpstreamData ==
    {PyDict("data", PyList(<<"r1">>)), PyDict("data", PyList(<<"r2">>)),
     PyDict("data", PyList(<<>>)), PyDict("data", PyNone)}
ItemsOf(data) ==
    IF data.key = "data" /\ Truthy(data.val) THEN data.val ELSE PyList(<<>>)

\* Mutant of MemoryHit: the entry is never taken.
MemoryHit_Never(entry, t, ttl) == FALSE

\* `if cached and (now - ts) < ttl`
MemoryHit(entry, t, ttl) == Truthy(entry.cached) /\ t - entry.ts < ttl

\* Mutant of Mirror: the fetched list is not written to the slot.
Mirror_Skipped(f, h, items, t) == f

\* `save_json_cache(name, items)` of the cogs that mirror
Mirror(f, h, items, t) ==
    IF LoaderOf(h).mirrored THEN SaveJsonCache(f, LoaderOf(h).slot, items, t) ELSE f

\* __init__ of the cog: the memory entry, seeded from the disk slot or empty
Construct ==
    \E h \in Handlers :
    LET disk == LoadJsonCache(fs, LoaderOf(h).slot, MaxAge, now)
    IN  /\ ~mem[h].built
        /\ mem' = [mem EXCEPT ![h] =
                     IF LoaderOf(h).seeded
                     THEN [built |-> TRUE, ts |-> now, cached |-> Seed(disk), from |-> "seed",
                           obtained |-> IF Truthy(disk.val)
                                        THEN FileAt(fs, Path(LoaderOf(h).slot)).mtime
                                        ELSE 0]
                     ELSE [built |-> TRUE, ts |-> 0, cached |-> PyList(<<>>), from |-> "seed",
                           obtained |-> 0]]
        /\ lastCall' = [NoCall EXCEPT !.op = "init", !.h = h, !.at = now, !.disk = disk.val]
        /\ UNCHANGED <<cacheVars, writable, fetches>>
        /\ UNCHANGED loaderOthers

\* Mutant of Refresh: a fetch that raises empties the memory entry.
Refresh_ClearsOnError(entry, reply, t) ==
    IF reply.t = "ClientError"
    THEN [entry EXCEPT !.cached = PyList(<<>>), !.ts = 0]
    ELSE [built |-> TRUE, ts |-> t, cached |-> ItemsOf(reply), from |-> "fetch",
          obtained |-> t]

\* `data = await self.api.get(...)`, `items = ...`,
\* `self._commodities_cache = (now, items)`: the assignment is reached only
\* when the await returns.
Refresh(entry, reply, t) ==
    IF reply.t = "ClientError"
    THEN entry
    ELSE [built |-> TRUE, ts |-> t, cached |-> ItemsOf(reply), from |-> "fetch",
          obtained |-> t]

\* Mutant of TryExcept: the autocomplete handlers catch the errors of the
\* fetch only.
TryExcept_FetchErrorsOnly(outcome) ==
    IF outcome = Raise("ClientError") THEN Return(PyList(<<>>)) ELSE outcome

\* `try: items = await self._load_...() / except Exception: return []` of
\* the autocomplete handlers: what the handler ends with, or the list it
\* goes on to filter.
TryExcept(outcome) ==
    IF outcome.kind = "raise" THEN Return(PyList(<<>>)) ELSE outcome

\* _load_commodities / _load_categories of a handler, called bare by a
\* command (which gets `outcome`) or inside the try of an autocomplete
\* handler (which gets `autocomplete`). reply is what the upstream fetch
\* gives: a JSON object, or an error raised by UEXAPI.get (connection error,
\* HTTP error, retries used up). save_json_cache, when it is reached, writes
\* the slot, or raises OSError at open(tmp, "w") in a directory that takes
\* no new files.
LoadList ==
    \E h \in Handlers :
    LET call == [NoCall EXCEPT !.op = "load", !.h = h, !.at = now, !.before = mem[h],
                     !.disk = LoadJsonCache(fs, LoaderOf(h).slot, MaxAge, now).val]
        Done(network, outcome) ==
            [call EXCEPT !.network = network, !.outcome = outcome,
                         !.autocomplete = TryExcept(outcome)]
    IN  /\ mem[h].built
        /\ IF MemoryHit(mem[h], now, LoaderOf(h).ttl)
           THEN /\ lastCall' = Done(FALSE, Return(mem[h].cached))
                /\ UNCHANGED <<mem, fs, lastSave>>
           ELSE \E reply \in UpstreamData \cup {[t |-> "ClientError"]} :
                /\ mem' = [mem EXCEPT ![h] = Refresh(mem[h], reply, now)]
                /\ IF reply.t = "ClientError"
                   THEN /\ lastCall' = Done(TRUE, Raise("ClientError"))
                        /\ UNCHANGED <<fs, lastSave>>
                   ELSE IF LoaderOf(h).mirrored /\ ~writable
                   THEN /\ lastCall' = Done(TRUE, Raise("OSError"))
                        /\ UNCHANGED <<fs, lastSave>>
                   ELSE /\ fs' = Mirror(fs, h, ItemsOf(reply), now)
                        /\ lastSave' = IF LoaderOf(h).mirrored
                                       THEN [lastSave EXCEPT ![LoaderOf(h).slot] =
                                                [saved |-> TRUE, payload |-> ItemsOf(reply),
                                                 at |-> now]]
                                       ELSE lastSave
                        /\ lastCall' = Done(TRUE, Return(ItemsOf(reply)))
        /\ UNCHANGED <<now, lastLoad, writers, loader, everSaved, writable, fetches>>
        /\ UNCHANGED loaderOthers

\* _load_prices and the loaders of its shape (_load_routes, _load_history,
\* _load_alerts, _load_fuel_all): the payload is kept in a disk slot of its
\* own and nowhere in memory. The second slot of the directory stands for
\* the slot of the payload, whose maximum age is one tick.
LoadPayload ==
    LET slot == NameSeq[2]
        cached == LoadJsonCache(fs, slot, 1, now)
        call == [NoCall EXCEPT !.op = "payload", !.at = now, !.disk = cached.val]
        Done(network, outcome) ==
            [call EXCEPT !.network = network, !.outcome = outcome,
                         !.autocomplete = TryExcept(outcome)]
    IN  /\ IF Truthy(cached.val)
           THEN /\ lastCall' = Done(FALSE, Return(cached.val))
                /\ UNCHANGED <<fs, lastSave>>
           ELSE \E reply \in UpstreamData \cup {[t |-> "ClientError"]} :
                IF reply.t = "ClientError"
                THEN /\ lastCall' = Done(TRUE, Raise("ClientError"))
                     /\ UNCHANGED <<fs, lastSave>>
                ELSE IF ~writable
                THEN /\ lastCall' = Done(TRUE, Raise("OSError"))
                     /\ UNCHANGED <<fs, lastSave>>
                ELSE /\ fs' = SaveJsonCache(fs, slot, ItemsOf(reply), now)
                     /\ lastSave' = [lastSave EXCEPT ![slot] =
                                        [saved |-> TRUE, payload |-> ItemsOf(reply),
                                         at |-> now]]
                     /\ lastCall' = Done(TRUE, Return(ItemsOf(reply)))
        /\ UNCHANGED <<mem, now, lastLoad, writers, loader, everSaved, writable, fetches>>
        /\ UNCHANGED loaderOthers

LoaderNext == Tick \/ Construct \/ LoadList

InitLoader ==
    /\ CacheInit /\ LoaderParked
    /\ GetParked /\ ResolveParked /\ PagerParked

SpecLoader == InitLoader /\ [][LoaderNext]_vars

\* The last loader call met a memory entry that was empty or not younger
\* than the TTL of its handler.
MemoryMissed ==
    /\ lastCall.op = "load"
    /\ \/ ~Truthy(lastCall.before.cached)
       \/ lastCall.at - lastCall.before.ts >= LoaderOf(lastCall.h).ttl
Fetched == lastCall.op = "load" /\ lastCall.network /\ lastCall.outcome.kind = "return"

\* The slot of handler h holds `list`, written at time t.
SlotHolds(h, list, t) ==
    FileAt(fs, Path(LoaderOf(h).slot)) =
        [exists |-> TRUE, content |-> JsonDumps(PyDict("data", list)),
         mtime |-> t, readable |-> TRUE]

\* C18 (as claimed): every list loader that misses in memory calls the
\* upstream fetch, stores the fetched list in its memory entry with a fresh
\* timestamp and mirrors it into the disk slot of its resource.
C18_MissRefreshesBothTiers ==
    MemoryMissed =>
        /\ lastCall.network
        /\ Fetched =>
            /\ mem[lastCall.h].cached = lastCall.outcome.val
            /\ mem[lastCall.h].ts = lastCall.at
            /\ SlotHolds(lastCall.h, lastCall.outcome.val, lastCall.at)

\* C18 (amended): as above, the mirroring into the disk slot being done by
\* the loaders of the cogs that have one (not by Category._load_categories
\* and General._load_categories, which keep the list in memory only).
C18_MissRefreshes ==
    MemoryMissed =>
        /\ lastCall.network
        /\ Fetched =>
            /\ mem[lastCall.h].cached = lastCall.outcome.val
            /\ mem[lastCall.h].ts = lastCall.at
            /\ LoaderOf(lastCall.h).mirrored
                   => SlotHolds(lastCall.h, lastCall.outcome.val, lastCall.at)

\* C18 witness: Price._load_commodities met a fetched list as old as the TTL
\* and replaced it, in memory and on disk, by another one.
C18_Witness ==
    /\ Fetched /\ lastCall.h = "Price"
    /\ lastCall.before.from = "fetch" /\ Truthy(lastCall.before.cached)
    /\ lastCall.at - lastCall.before.ts >= LoaderOf("Price").ttl
    /\ lastCall.outcome.val # lastCall.before.cached
    /\ mem["Price"].cached = lastCall.outcome.val
    /\ SlotHolds("Price", lastCall.outcome.val, lastCall.at)

\* C19 (as claimed): after a loader fetched a list of any length, memory and
\* disk hold it, and every further call within the TTL returns that list
\* without a network call.
C19_HitAfterFetch ==
    /\ Fetched =>
        /\ mem[lastCall.h].cached = lastCall.outcome.val
        /\ SlotHolds(lastCall.h, lastCall.outcome.val, lastCall.at)
    /\ (/\ lastCall.op = "load" /\ lastCall.before.from = "fetch"
        /\ lastCall.at - lastCall.before.ts < LoaderOf(lastCall.h).ttl)
           => (~lastCall.network /\ lastCall.outcome = Return(lastCall.before.cached))

\* C19 (amended): after a loader fetched a list, memory holds it, and so does
\* the disk slot for the loaders that mirror; when the list is not empty,
\* every further call within the TTL returns it without a network call.
C19_HitAfterNonEmptyFetch ==
    /\ Fetched =>
        /\ mem[lastCall.h].cached = lastCall.outcome.val
        /\ LoaderOf(lastCall.h).mirrored
               => SlotHolds(lastCall.h, lastCall.outcome.val, lastCall.at)
    /\ (/\ lastCall.op = "load" /\ lastCall.before.from = "fetch"
        /\ Truthy(lastCall.before.cached)
        /\ lastCall.at - lastCall.before.ts < LoaderOf(lastCall.h).ttl)
           => (~lastCall.network /\ lastCall.outcome = Return(lastCall.before.cached))

\* C19 witness: a call one tick after the fetch returns the fetched list
\* from memory.
C19_Witness ==
    /\ lastCall.op = "load" /\ lastCall.h = "Trade"
    /\ lastCall.before.from = "fetch" /\ Truthy(lastCall.before.cached)
    /\ lastCall.at > lastCall.before.ts
    /\ ~lastCall.network /\ lastCall.outcome = Return(lastCall.before.cached)
    /\ SlotHolds("Trade", lastCall.before.cached, lastCall.before.ts)

C28_BoundedStaleness ==
    (lastCall.op = "load" /\ ~lastCall.network /\ lastCall.outcome.kind = "return")
        => lastCall.at - lastCall.before.obtained <= LoaderOf(lastCall.h).ttl


(***************************************************************************)
(* One cog with a list loader (Price) and a payload loader, on a cache     *)
(* directory that takes new files or does not, with fetches that fail.     *)
(***************************************************************************)

InitRefresh ==
    /\ CacheInit
    /\ mem = [h \in Handlers |->
                IF h = "Price"
                THEN [NotBuilt EXCEPT !.built = TRUE, !.from = "seed"]
                ELSE NotBuilt]
    /\ lastCall = NoCall
    /\ writable \in BOOLEAN
    /\ fetches = [t \in Tasks |-> IdleFetch]
    /\ GetParked /\ ResolveParked /\ PagerParked

RefreshNext == Tick \/ LoadList \/ LoadPayload

SpecRefresh == InitRefresh /\ [][RefreshNext]_vars

\* the last call was a call of a list loader or of a payload loader
Loaded == lastCall.op \in {"load", "payload"}

\* C24: whatever a loader raises inside an autocomplete handler (the error
\* of the fetch, the error of the disk write of the mirroring), the handler
\* returns the empty suggestion list; no loader outcome makes it raise.
C24_AutocompleteSwallows ==
    Loaded => /\ lastCall.autocomplete.kind = "return"
              /\ lastCall.outcome.kind = "raise"
                    => lastCall.autocomplete = Return(PyList(<<>>))

\* C24 witness: the mirroring of a fetched, non-empty list raised OSError, and
\* the autocomplete handler returned no suggestion.
C24_Witness ==
    /\ lastCall.op = "load" /\ lastCall.outcome = Raise("OSError")
    /\ Truthy(mem[lastCall.h].cached)
    /\ lastCall.autocomplete = Return(PyList(<<>>))

\* C26: a loader call whose fetch raises changes neither the memory entry of
\* any handler (list and timestamp) nor any disk slot, and its caller gets
\* the exception.
C26_FailedRefreshKeeps ==
    [][(lastCall' # lastCall /\ lastCall'.op \in {"load", "payload"}
        /\ lastCall'.outcome = Raise("ClientError"))
          => (mem' = mem /\ fs' = fs /\ lastSave' = lastSave)]_vars

\* C26 witness: a list loader met an entry with a list that was too old, its
\* fetch raised, and the entry and the slot written with it are still there.
C26_Witness ==
    /\ lastCall.op = "load" /\ lastCall.outcome = Raise("ClientError")
    /\ Truthy(lastCall.before.cached)
    /\ mem[lastCall.h] = lastCall.before
    /\ SlotHolds(lastCall.h, lastCall.before.cached, lastCall.before.ts)

-----------------------------------------------------------------------------
(***************************************************************************)
(* The resolvers and autocomplete handlers on their own.                   *)
(***************************************************************************)

InitResolve == ResolveInit /\ GetParked /\ CacheInit /\ PagerParked /\ LoaderParked

SpecResolve == InitResolve /\ [][ResolveNext]_vars

Resolved == answer.op \in {"find_category", "find_commodity"}

\* The first position of the list whose entity satisfies P, 0 when none does.
FirstPos(P(_)) ==
    IF \E k \in 1..Len(entities) : P(entities[k])
    THEN CHOOSE k \in 1..Len(entities) :
             P(entities[k]) /\ \A j \in 1..(k - 1) : ~P(entities[j])
    ELSE 0
EntityAt(k) == IF k = 0 THEN NoEntity ELSE entities[k]

NameEquals(e) == Norm(e.name) = Norm(query)
NameStarts(e) == StartsWith(Norm(e.name), Norm(query))
NameContains(e) == Contains(Norm(e.name), Norm(query))

\* C7 (as claimed): in every resolver a query that is an unsigned integer
\* gives the entity with that id, or none when no entity has it; names are
\* not looked at.
C7_NumericQueryById ==
    (Resolved /\ IsInt(query)) =>
        answer.entity = EntityAt(FirstPos(LAMBDA e : e.id = IntOf(query)))

\* C8: for a query that is no integer, an entity whose normalized name equals
\* the normalized query wins (the first such), whatever matches before it as
\* prefix or substring; failing that, the first entity whose name starts with
\* the query wins, whatever matches before it as substring.
C8_ExactThenPrefix ==
    (Resolved /\ ~IsInt(query) /\ entities # <<>>) =>
        IF FirstPos(NameEquals) # 0
        THEN answer.entity = EntityAt(FirstPos(NameEquals))
        ELSE FirstPos(NameStarts) # 0 => answer.entity = EntityAt(FirstPos(NameStarts))

\* C8 witness: the query is typed with blanks and capitals, the first entity
\* matches it only as prefix, the second equals it, and the second is returned.
C8_Witness ==
    /\ answer.op = "find_commodity" /\ ~IsInt(query) /\ Len(entities) = 2
    /\ Norm(query) # <<>> /\ query # Norm(query)
    /\ NameStarts(entities[1]) /\ ~NameEquals(entities[1])
    /\ NameEquals(entities[2])
    /\ answer.entity = entities[2]

\* C9: for a query that is no integer and a list that is not empty, when no
\* name equals or starts with the query the first entity whose name contains
\* it is returned; none is returned exactly when no name contains it.
C9_SubstringFallback ==
    (Resolved /\ ~IsInt(query) /\ entities # <<>>) =>
        /\ (FirstPos(NameEquals) = 0 /\ FirstPos(NameStarts) = 0)
               => answer.entity = EntityAt(FirstPos(NameContains))
        /\ answer.entity = NoEntity <=> FirstPos(NameContains) = 0

\* C9 witness: nothing equals or starts with the query, the second entity is
\* the first whose name contains it, and it is returned.
C9_Witness ==
    /\ answer.op = "find_category" /\ ~IsInt(query) /\ Len(entities) = 2
    /\ FirstPos(NameStarts) = 0
    /\ FirstPos(NameContains) = 2
    /\ answer.entity = entities[2]

\* C10 (as claimed): with a query that is not empty, no entity is listed
\* twice by any autocomplete handler.
C10_NoDuplicateSuggestion ==
    (answer.op \in {"autocomplete", "autocomplete_general"} /\ Norm(query) # <<>>) =>
        \A i, j \in 1..Len(answer.list) : i # j => answer.list[i] # answer.list[j]

\* The position of an entity in the list the loader returned (ids are distinct).
PosOf(e) == CHOOSE k \in 1..Len(entities) : entities[k] = e
Listed(e) == \E i \in 1..Len(answer.list) : answer.list[i] = e
SubstringOnly(e) == NameContains(e) /\ ~NameStarts(e)

\* The matches ranked before e: every prefix match, and every substring-only
\* match that is earlier in the list.
RankedBefore(e) ==
    {k \in 1..Len(entities) :
        \/ NameStarts(entities[k])
        \/ SubstringOnly(entities[k]) /\ k < PosOf(e)}

\* C11 (as claimed): an autocomplete handler never suggests more than 20
\* entries; for a query that is not empty every prefix match stands before
\* every substring-only match, each group in list order, and a substring-only
\* match is left out only when 20 distinct matches are ranked before it; for
\* an empty query the suggestions are the first 20 entities.
C11_RankingAndCap ==
    (answer.op \in {"autocomplete", "autocomplete_general"}) =>
        LET L == answer.list IN
        /\ Len(L) <= SuggestCap
        /\ Norm(query) = <<>> => L = Take(entities, SuggestCap)
        /\ Norm(query) # <<>> =>
            /\ \A i, j \in 1..Len(L) :
                   (NameStarts(L[i]) /\ SubstringOnly(L[j])) => i < j
            /\ \A i, j \in 1..Len(L) :
                   (i < j /\ (NameStarts(L[i]) <=> NameStarts(L[j])))
                       => PosOf(L[i]) <= PosOf(L[j])
            /\ \A k \in 1..Len(entities) :
                   (SubstringOnly(entities[k]) /\ ~Listed(entities[k]))
                       => Cardinality(RankedBefore(entities[k])) >= SuggestCap

-----------------------------------------------------------------------------
(***************************************************************************)
(* One paginator view on its own: a list, a page size, and button presses  *)
(* by any users.                                                           *)
(***************************************************************************)

InitPager ==
    /\ \E n \in 0..MaxTotal : items_all = [k \in 1..n |-> k]
    /\ page_size \in (1..MaxPageSize) \cup {DefaultPageSize}
    /\ offset = 0
    /\ prev_disabled = UpdateButtons(0, page_size, Total).prev
    /\ next_disabled = UpdateButtons(0, page_size, Total).next
    /\ message = Embed(items_all, 0, page_size)
    /\ shown = [op |-> "none", by |-> 0, kind |-> "none", before |-> 0]
    /\ inflight = <<>>
    /\ GetParked /\ CacheInit /\ ResolveParked /\ LoaderParked

SpecPager == InitPager /\ [][PagerNext]_vars

\* max(0, total - page_size), and the last press being `op` by the view's user
LastStart == IF Total - page_size > 0 THEN Total - page_size ELSE 0
Authorized(op) == shown.op = op /\ shown.by = UserId

\* C12: on_next by the view's user sets the offset to
\* min(offset + page_size, max(0, total - page_size)): 30 entries with page
\* size 25 go from 0 to 5, the offset never exceeds the last start, and next
\* at the last start leaves it there.
C12_NextClamped ==
    Authorized("next") =>
        /\ offset = (IF shown.before + page_size < LastStart
                     THEN shown.before + page_size ELSE LastStart)
        /\ offset <= LastStart
        /\ shown.before = LastStart => offset = shown.before
        /\ (Total = 30 /\ page_size = 25 /\ shown.before = 0) => offset = 5

\* C12 witness: 30 entries, page size 25, a further next at offset 5.
C12_Witness ==
    /\ Authorized("next") /\ Total = 30 /\ page_size = 25
    /\ shown.before = 5 /\ offset = 5

\* C13: a press by an absent user or by a user other than the view's leaves
\* the offset, both disabled flags and the message as they were, and is
\* answered by the private notice.
C13_UnauthorizedRejected ==
    [][shown'.by # UserId =>
          /\ offset' = offset
          /\ prev_disabled' = prev_disabled
          /\ next_disabled' = next_disabled
          /\ message' = message
          /\ shown'.kind = "ephemeral_notice"]_vars

\* C13 witness: another user pressed next on a middle page and was refused.
C13_Witness ==
    /\ shown.op = "next" /\ shown.by = 2 /\ shown.kind = "ephemeral_notice"
    /\ offset > 0 /\ ~next_disabled /\ offset = shown.before

\* C14: 0 <= offset <= max(0, total - page_size) in every reachable state.
C14_OffsetInRange == 0 <= offset /\ offset <= LastStart

\* C14 witness: the view's user went to the last start and pressed next again.
C14_Witness ==
    /\ Authorized("next") /\ shown.before = LastStart /\ offset = LastStart
    /\ LastStart > page_size

\* C15 (as claimed): the offset is a multiple of the page size in every
\* reachable state.
C15_OffsetAligned == offset % page_size = 0

\* C16: on_prev by the view's user sets the offset to
\* max(0, offset - page_size); at offset 0 it stays 0.
C16_PrevClamped ==
    Authorized("prev") =>
        /\ offset = (IF shown.before - page_size > 0
                     THEN shown.before - page_size ELSE 0)
        /\ shown.before = 0 => offset = 0

\* C16 witness: previous from an offset smaller than a page ends at 0.
C16_Witness ==
    /\ Authorized("prev") /\ shown.before > 0 /\ shown.before < page_size
    /\ offset = 0

\* C17: the page on the message is the entries at the indices
\* [offset, min(offset + page_size, total)) in list order, and it is not
\* empty when the list is not.
C17_PageIsSlice ==
    LET stop == IF offset + page_size < Total THEN offset + page_size ELSE Total
    IN  /\ message.page = [i \in 1..(stop - offset) |-> items_all[offset + i]]
        /\ Total > 0 => message.page # <<>>

\* C17 witness: the message shows the last page of a list longer than a page.
C17_Witness ==
    /\ shown.kind = "edit_message" /\ offset > 0 /\ offset = LastStart
    /\ Len(message.page) = page_size /\ message.page[page_size] = Total

\* C29 (as claimed): when on_next by the view's user moved the offset from a
\* to b, on_prev by that user right after it moves the offset back to a.
C29_PrevUndoesNext ==
    [][(/\ Authorized("next") /\ offset # shown.before
        /\ shown'.op = "prev" /\ shown'.by = UserId)
           => offset' = shown.before]_vars

\* C30 (as claimed): the page number of the footer goes up with every
\* on_next that changes the offset and down with every on_prev that changes
\* it.
C30_PageNumberTracks ==
    [][(shown'.by = UserId /\ offset' # offset) =>
          IF shown'.op = "next"
          THEN message'.page_num > message.page_num
          ELSE message'.page_num < message.page_num]_vars

-----------------------------------------------------------------------------
(***************************************************************************)
(* One paginator view with several button callbacks under way. discord.py  *)
(* runs every press as its own task; a callback gives up control only at   *)
(* its await: _guard's send_message (pager.py:61) for a foreign user, and  *)
(* edit_message (pager.py:72, 80) for the view's user. The arguments of    *)
(* the awaited call, self._embed() among them, are evaluated before the    *)
(* callback is suspended; the responses reach the message in any order.    *)
(***************************************************************************)

\* Most responses of one view that are under way at once
MaxInflight == 2
\* Longest list handed to a view whose callbacks interleave
MaxConcTotal == 3

\* on_prev / on_next up to their await: the guard, the new offset, the flags
\* and the response handed to Discord.
PressConc ==
    /\ Len(inflight) < MaxInflight
    /\ \E op \in {"prev", "next"}, user \in 0..2 :
         LET new_offset == IF op = "prev" THEN PrevOffset(offset, page_size)
                           ELSE NextOffset(offset, page_size, Total)
             flags == UpdateButtons(new_offset, page_size, Total)
         IN  IF Guard(user, UserId)
             THEN /\ offset' = new_offset
                  /\ prev_disabled' = flags.prev
                  /\ next_disabled' = flags.next
                  /\ inflight' = Append(inflight,
                        [op |-> op, by |-> user, kind |-> "edit_message",
                         before |-> offset, set |-> new_offset,
                         embed |-> Embed(items_all, new_offset, page_size),
                         prev |-> flags.prev, next |-> flags.next])
             ELSE /\ inflight' = Append(inflight,
                        [op |-> op, by |-> user, kind |-> "ephemeral_notice",
                         before |-> offset, set |-> offset,
                         embed |-> Embed(<<>>, 0, page_size),
                         prev |-> FALSE, next |-> FALSE])
                  /\ UNCHANGED <<offset, prev_disabled, next_disabled>>
    /\ UNCHANGED <<items_all, page_size, message, shown>>
    /\ UNCHANGED pagerOthers

\* The awaited call of one callback completes: an edit replaces the embed of
\* the message, a notice leaves the message alone; the callback returns.
Deliver ==
    /\ \E i \in 1..Len(inflight) :
         /\ message' = IF inflight[i].kind = "edit_message"
                       THEN inflight[i].embed ELSE message
         /\ shown' = [op |-> inflight[i].op, by |-> inflight[i].by,
                      kind |-> inflight[i].kind, before |-> inflight[i].before]
         /\ inflight' = [k \in 1..(Len(inflight) - 1) |->
                            IF k < i THEN inflight[k] ELSE inflight[k + 1]]
    /\ UNCHANGED <<items_all, page_size, offset, prev_disabled, next_disabled>>
    /\ UNCHANGED pagerOthers

PagerConcNext == PressConc \/ Deliver

InitPagerConc ==
    /\ \E n \in 0..MaxConcTotal : items_all = [k \in 1..n |-> k]
    /\ page_size \in 1..MaxPageSize
    /\ offset = 0
    /\ prev_disabled = UpdateButtons(0, page_size, Total).prev
    /\ next_disabled = UpdateButtons(0, page_size, Total).next
    /\ message = Embed(items_all, 0, page_size)
    /\ shown = [op |-> "none", by |-> 0, kind |-> "none", before |-> 0]
    /\ inflight = <<>>
    /\ GetParked /\ CacheInit /\ ResolveParked /\ LoaderParked

SpecPagerConc == InitPagerConc /\ [][PagerConcNext]_vars

\* the responses of the view's user that are under way
Edits == {i \in 1..Len(inflight) : inflight[i].kind = "edit_message"}

\* C27: whatever the interleaving of the callbacks of one view, the response
\* of every callback of the view's user carries the page and the flags of the
\* offset that callback set, that offset is the one on_prev / on_next compute
\* from the offset the callback met, the view's offset and flags after the
\* callback's step are those same values, and the offset stays within
\* 0 .. max(0, total - page_size) at every step.
C27_StablePagination ==
    /\ [](/\ offset >= 0 /\ offset <= LastStart
          /\ prev_disabled = UpdateButtons(offset, page_size, Total).prev
          /\ next_disabled = UpdateButtons(offset, page_size, Total).next
          /\ \A i \in Edits :
               /\ inflight[i].set =
                     (IF inflight[i].op = "prev"
                      THEN PrevOffset(inflight[i].before, page_size)
                      ELSE NextOffset(inflight[i].before, page_size, Total))
               /\ inflight[i].embed.page =
                     PageSlice(items_all, inflight[i].set, page_size)
               /\ inflight[i].prev = (inflight[i].set <= 0)
               /\ inflight[i].next = (inflight[i].set + page_size >= Total))
    /\ [][(Len(inflight') > Len(inflight)
           /\ inflight'[Len(inflight')].kind = "edit_message")
            => /\ inflight'[Len(inflight')].before = offset
               /\ offset' = inflight'[Len(inflight')].set]_vars

\* C27 witness: two callbacks of the view's user are suspended with responses
\* for different offsets, and the message still shows the page of an older
\* offset than the view's.
C27_Witness ==
    /\ Len(inflight) = 2 /\ Edits = {1, 2}
    /\ inflight[1].set # inflight[2].set
    /\ inflight[2].set = offset
    /\ shown.kind = "edit_message"
    /\ message.page # PageSlice(items_all, offset, page_size)
    /\ message.page # inflight[1].embed.page

-----------------------------------------------------------------------------
(***************************************************************************)
(* The list loader of one cog called by two tasks. A call gives up control  *)
(* at `await self.api.get(...)` only: `now` is read before it, the memory   *)
(* entry and the slot are written after it. The upstream takes the snapshot *)
(* it answers with at some time during the await; the answers of two        *)
(* requests reach their tasks in any order.                                 *)
(***************************************************************************)

\* _load_commodities up to its await: a hit returns, a miss sends the request
FetchBegin ==
    /\ \E t \in Tasks, h \in Handlers :
         /\ fetches[t].pc = "idle"
         /\ mem[h].built
         /\ IF MemoryHit(mem[h], now, LoaderOf(h).ttl)
            THEN /\ lastCall' = [NoCall EXCEPT !.op = "load", !.h = h, !.at = now,
                                    !.before = mem[h],
                                    !.outcome = Return(mem[h].cached),
                                    !.autocomplete = Return(mem[h].cached)]
                 /\ UNCHANGED fetches
            ELSE /\ fetches' = [fetches EXCEPT ![t] =
                                   [IdleFetch EXCEPT !.pc = "awaiting", !.h = h,
                                                     !.started = now]]
                 /\ UNCHANGED lastCall
    /\ UNCHANGED <<cacheVars, mem, writable>>
    /\ UNCHANGED loaderOthers

\* The upstream answers the request of a task with its list of this moment,
\* or the request fails.
FetchRespond ==
    /\ \E t \in Tasks, reply \in UpstreamData \cup {[t |-> "ClientError"]} :
         /\ fetches[t].pc = "awaiting"
         /\ fetches' = [fetches EXCEPT ![t].pc = "responded", ![t].reply = reply,
                                       ![t].taken = now]
    /\ UNCHANGED <<cacheVars, mem, lastCall, writable>>
    /\ UNCHANGED loaderOthers

\* The await of a task ends: _load_commodities from the await to its return
FetchComplete ==
    /\ \E t \in Tasks :
         LET f == fetches[t]
             call == [NoCall EXCEPT !.op = "load", !.h = f.h, !.at = f.started,
                                    !.before = mem[f.h], !.network = TRUE]
             Done(outcome) == [call EXCEPT !.outcome = outcome,
                                           !.autocomplete = TryExcept(outcome)]
         IN  /\ f.pc = "responded"
             /\ IF f.reply.t = "ClientError"
                THEN /\ lastCall' = Done(Raise("ClientError"))
                     /\ fetches' = [fetches EXCEPT ![t] = IdleFetch]
                     /\ UNCHANGED <<mem, fs, lastSave>>
                ELSE /\ mem' = [mem EXCEPT ![f.h] =
                                  [Refresh(mem[f.h], f.reply, f.started)
                                      EXCEPT !.obtained = f.taken]]
                     /\ fetches' = [u \in Tasks |->
                                      IF u = t THEN IdleFetch
                                      ELSE IF fetches[u].pc # "idle" /\ fetches[u].h = f.h
                                      THEN [fetches[u] EXCEPT !.overlapped = TRUE]
                                      ELSE fetches[u]]
                     /\ IF LoaderOf(f.h).mirrored /\ ~writable
                        THEN /\ lastCall' = Done(Raise("OSError"))
                             /\ UNCHANGED <<fs, lastSave>>
                        ELSE /\ fs' = Mirror(fs, f.h, ItemsOf(f.reply), now)
                             /\ lastSave' = IF LoaderOf(f.h).mirrored
                                            THEN [lastSave EXCEPT ![LoaderOf(f.h).slot] =
                                                    [saved |-> TRUE,
                                                     payload |-> ItemsOf(f.reply),
                                                     at |-> now]]
                                            ELSE lastSave
                             /\ lastCall' = Done(Return(ItemsOf(f.reply)))
    /\ UNCHANGED <<now, lastLoad, writers, loader, everSaved, writable>>
    /\ UNCHANGED loaderOthers

LoaderConcNext == Tick \/ FetchBegin \/ FetchRespond \/ FetchComplete

SpecLoaderConc == InitRefresh /\ [][LoaderConcNext]_vars

\* C21 (as claimed): when two calls of one list loader both miss and are
\* suspended in their fetches together, the write of the call that ends
\* second puts a snapshot in memory that the upstream gave no earlier than
\* the one it overwrites, under a timestamp that is not older than that
\* snapshot.
C21_SecondWriteNewer ==
    [][\A t \in Tasks :
         (/\ fetches[t].pc = "responded" /\ fetches'[t].pc = "idle"
          /\ fetches[t].overlapped /\ fetches[t].reply.t # "ClientError")
            => /\ mem'[fetches[t].h].obtained >= mem[fetches[t].h].obtained
               /\ mem'[fetches[t].h].ts >= mem'[fetches[t].h].obtained]_vars

=============================================================================
